---- MODULE Spec2Model ----
(***************************************************************************)
(* CxxLazy: the double-checked-locking protocol of components::OnceCell<T> *)
(* (a lazily computed value) and components::OnceCall (a run-once action), *)
(* include/cxxlazy/components/once_call.h.                                 *)
(*                                                                         *)
(* Threads interleave at the granularity of the accesses to the shared     *)
(* members state_ (atomic), value_ (std::optional<T>) and mtx_.  A step    *)
(* that ends an operation also releases the scoped lock it holds, as the   *)
(* destructor of the lock object does when the function is left.           *)
(***************************************************************************)
EXTENDS Integers, FiniteSets, Sequences, TLC

\* ------------------------------------------------------------------ bounds
NThreads == 2
MaxValue == 2
MaxOps == 4
MaxLocalOps == 4

Threads == 1..NThreads
Values == 1..MaxValue

\* ------------------------------------------------------- program constants
\* std::optional<T> value_ with no value
Empty == 0
\* what dereferencing an empty optional yields besides any T: undefined
Undef == -1
\* enum class State { Uninitialized, Initializing, Initialized }
State == {"Uninitialized", "Initializing", "Initialized"}
\* the two primitives: one OnceCell<T> and one OnceCall
Prims == {"cell", "once"}

VARIABLES
    state_,      \* [Prims -> State]            std::atomic<State> state_
    value_,      \* Values \cup {Empty}         OnceCell: std::optional<T> value_
    mtx_,        \* [Prims -> SUBSET Threads]   std::mutex mtx_: its holder, {} when free
    pc,          \* [Threads -> STRING]         where each thread stands
    tmp,         \* [Threads -> Int]            the value fn() returned, before emplace
    last,        \* the most recently completed operation and what it gave its caller
    ops,         \* operations started so far
    initRuns,    \* [Prims -> Nat]   history: initializer bodies executed
    initStores,  \* [Prims -> Nat]   history: stores of State::Initialized
    resetCalled, \* [Prims -> BOOLEAN] history: reset() was called
    failers,     \* [Prims -> SUBSET Threads] history: threads whose initializer threw
    stored,      \* history: the value of the latest successful emplace
    tl_state,    \* [Threads -> State]  cell_.state_ of each thread's thread_local Lazy<T>
    tl_value,    \* [Threads -> Values \cup {Empty}]  cell_.value_ of each thread's instance
    tl_last,     \* the most recent operation on a thread_local Lazy<T>, and by whom
    tl_ops,      \* operations on thread_local instances so far
    tl_runs,     \* [Threads -> Nat]  history: initializer runs each thread caused
    tl_written   \* [Threads -> Values \cup {Empty}]  history: the value last assigned
                 \*    through the reference, per instance, since its last reset

shared == <<state_, value_, mtx_, pc, tmp, last, ops, initRuns, initStores, resetCalled, failers, stored>>

tl_vars == <<tl_state, tl_value, tl_last, tl_ops, tl_runs, tl_written>>

vars == <<shared, tl_vars>>

hist == <<initRuns, initStores, resetCalled, failers, stored>>

\* ------------------------------------------------------------------ helpers
\* *value_ : the held value; undefined behaviour on an empty optional
DerefOutcomes(slot) == IF slot = Empty THEN Values \cup {Undef} ELSE {slot}

\* state_.load(...) == State::Initialized
IsInit(p) == state_[p] = "Initialized"

\* std::unique_lock / std::lock_guard constructor: blocks until the mutex is free
CanLock(p) == mtx_[p] = {}

Lock(p, t) == mtx_' = [mtx_ EXCEPT ![p] = {t}]

\* the scoped lock's destructor
Unlock(p) == mtx_' = [mtx_ EXCEPT ![p] = {}]

\* the caller gets control back: a return value, or the rethrown exception
Finish(t, op, how, val) ==
    /\ pc' = [pc EXCEPT ![t] = "idle"]
    /\ last' = [op |-> op, how |-> how, val |-> val]

Goto(t, label) == pc' = [pc EXCEPT ![t] = label]

\* a thread enters a public member function
Begin(t) == pc[t] = "idle" /\ ops < MaxOps /\ ops' = ops + 1

Init ==
    /\ state_ = [p \in Prims |-> "Uninitialized"]
    /\ value_ = Empty
    /\ mtx_ = [p \in Prims |-> {}]
    /\ pc = [t \in Threads |-> "idle"]
    /\ tmp = [t \in Threads |-> Empty]
    /\ last = [op |-> "none", how |-> "none", val |-> Empty]
    /\ ops = 0
    /\ initRuns = [p \in Prims |-> 0]
    /\ initStores = [p \in Prims |-> 0]
    /\ resetCalled = [p \in Prims |-> FALSE]
    /\ failers = [p \in Prims |-> {}]
    /\ stored = Empty
    /\ tl_state = [i \in Threads |-> "Uninitialized"]
    /\ tl_value = [i \in Threads |-> Empty]
    /\ tl_last = [by |-> 0, op |-> "none", how |-> "none", val |-> Empty]
    /\ tl_ops = 0
    /\ tl_runs = [t \in Threads |-> 0]
    /\ tl_written = [i \in Threads |-> Empty]

\* ------------------------------------------------ OnceCell<T>::get_or_init
\* line 228: the lock-free first check, state_.load(acquire)
GetOrInitFast(t) ==
    /\ Begin(t)
    /\ Goto(t, IF IsInit("cell") THEN "goi_deref" ELSE "goi_lock")
    /\ UNCHANGED <<state_, value_, mtx_, tmp, last, hist>>

\* line 229: return *value_ on the fast path, no lock held
GetOrInitFastReturn(t) ==
    /\ pc[t] = "goi_deref"
    /\ \E v \in DerefOutcomes(value_) : Finish(t, "get_or_init", "fast", v)
    /\ UNCHANGED <<state_, value_, mtx_, tmp, ops, hist>>

\* a get_or_init that enters the slow path without waiting for the mutex
GetOrInitLock_NoWait(t) ==
    /\ pc[t] = "goi_lock"
    /\ Lock("cell", t)
    /\ Goto(t, "goi_check")
    /\ UNCHANGED <<state_, value_, tmp, last, ops, hist>>

\* line 231: std::unique_lock<std::mutex> lock(mtx_)
GetOrInitLock(t) ==
    /\ pc[t] = "goi_lock"
    /\ CanLock("cell")
    /\ Lock("cell", t)
    /\ Goto(t, "goi_check")
    /\ UNCHANGED <<state_, value_, tmp, last, ops, hist>>

\* a get_or_init whose slow path omits the second check
GetOrInitSecondCheck_NoRecheck(t) ==
    /\ pc[t] = "goi_check"
    /\ Goto(t, "goi_mark")
    /\ UNCHANGED <<state_, value_, mtx_, tmp, last, ops, hist>>

\* a get_or_init whose second check hands back a freshly computed value instead
\* of the stored one
GetOrInitSecondCheck_OwnValue(t) ==
    /\ pc[t] = "goi_check"
    /\ IF IsInit("cell")
       THEN /\ \E v \in Values : Finish(t, "get_or_init", "second", v)
            /\ Unlock("cell")
       ELSE /\ Goto(t, "goi_mark")
            /\ UNCHANGED <<mtx_, last>>
    /\ UNCHANGED <<state_, value_, tmp, ops, hist>>

\* lines 232-233: the second check under the lock; return *value_ and unlock
GetOrInitSecondCheck(t) ==
    /\ pc[t] = "goi_check"
    /\ IF IsInit("cell")
       THEN /\ \E v \in DerefOutcomes(value_) : Finish(t, "get_or_init", "second", v)
            /\ Unlock("cell")
       ELSE /\ Goto(t, "goi_mark")
            /\ UNCHANGED <<mtx_, last>>
    /\ UNCHANGED <<state_, value_, tmp, ops, hist>>

\* a get_or_init that marks the cell Initialized before the initializer has run
GetOrInitMark_Initialized(t) ==
    /\ pc[t] = "goi_mark"
    /\ state_' = [state_ EXCEPT !["cell"] = "Initialized"]
    /\ Goto(t, "goi_fn")
    /\ UNCHANGED <<value_, mtx_, tmp, last, ops, hist>>

\* line 235: state_.store(State::Initializing, relaxed)
GetOrInitMark(t) ==
    /\ pc[t] = "goi_mark"
    /\ state_' = [state_ EXCEPT !["cell"] = "Initializing"]
    /\ Goto(t, "goi_fn")
    /\ UNCHANGED <<value_, mtx_, tmp, last, ops, hist>>

\* line 238, the argument std::forward<Fn>(fn)(): the initializer runs to its end
\* and returns a value, or throws
GetOrInitInvoke(t) ==
    /\ pc[t] = "goi_fn"
    /\ initRuns' = [initRuns EXCEPT !["cell"] = @ + 1]
    /\ \/ /\ \E v \in Values : tmp' = [tmp EXCEPT ![t] = v]
          /\ Goto(t, "goi_emplace")
          /\ UNCHANGED failers
       \/ /\ failers' = [failers EXCEPT !["cell"] = @ \cup {t}]
          /\ Goto(t, "goi_catch")
          /\ UNCHANGED tmp
    /\ UNCHANGED <<state_, value_, mtx_, last, ops, initStores, resetCalled, stored>>

\* line 238: value_.emplace(...)
GetOrInitEmplace(t) ==
    /\ pc[t] = "goi_emplace"
    /\ value_' = tmp[t]
    /\ stored' = tmp[t]
    /\ tmp' = [tmp EXCEPT ![t] = Empty]
    /\ Goto(t, "goi_store")
    /\ UNCHANGED <<state_, mtx_, last, ops, initRuns, initStores, resetCalled, failers>>

\* a return that leaves the mutex locked
GetOrInitPublish_KeepLock(t) ==
    /\ pc[t] = "goi_store"
    /\ state_' = [state_ EXCEPT !["cell"] = "Initialized"]
    /\ initStores' = [initStores EXCEPT !["cell"] = @ + 1]
    /\ \E v \in DerefOutcomes(value_) : Finish(t, "get_or_init", "fresh", v)
    /\ UNCHANGED <<value_, mtx_, tmp, ops, initRuns, resetCalled, failers, stored>>

\* lines 239-240: state_.store(State::Initialized, release); return *value_; unlock
GetOrInitPublish(t) ==
    /\ pc[t] = "goi_store"
    /\ state_' = [state_ EXCEPT !["cell"] = "Initialized"]
    /\ initStores' = [initStores EXCEPT !["cell"] = @ + 1]
    /\ \E v \in DerefOutcomes(value_) : Finish(t, "get_or_init", "fresh", v)
    /\ Unlock("cell")
    /\ UNCHANGED <<value_, tmp, ops, initRuns, resetCalled, failers, stored>>

\* a handler that rethrows without rolling the state back
GetOrInitCatch_NoRollback(t) ==
    /\ pc[t] = "goi_catch"
    /\ Finish(t, "get_or_init", "threw", Empty)
    /\ Unlock("cell")
    /\ UNCHANGED <<state_, value_, tmp, ops, hist>>

\* lines 242-246: catch (...) { state_.store(State::Uninitialized, release); throw; }
GetOrInitCatch(t) ==
    /\ pc[t] = "goi_catch"
    /\ state_' = [state_ EXCEPT !["cell"] = "Uninitialized"]
    /\ Finish(t, "get_or_init", "threw", Empty)
    /\ Unlock("cell")
    /\ UNCHANGED <<value_, tmp, ops, hist>>

\* ---------------------------------- OnceCell<T>::is_initialized, get, try_get
\* an is_initialized() that reads the flag under the mutex
IsInitialized_Locked(t) ==
    /\ Begin(t)
    /\ CanLock("cell")
    /\ Finish(t, "is_initialized", IF IsInit("cell") THEN "true" ELSE "false", Empty)
    /\ UNCHANGED <<state_, value_, mtx_, tmp, hist>>

\* line 257: return state_.load(acquire) == State::Initialized
IsInitialized(t) ==
    /\ Begin(t)
    /\ Finish(t, "is_initialized", IF IsInit("cell") THEN "true" ELSE "false", Empty)
    /\ UNCHANGED <<state_, value_, mtx_, tmp, hist>>

\* a get() that takes any state but Uninitialized for initialized
Get_NotUninitialized(t) ==
    /\ Begin(t)
    /\ IF state_["cell"] # "Uninitialized"
       THEN Goto(t, "get_deref") /\ UNCHANGED last
       ELSE Finish(t, "get", "null", Empty)
    /\ UNCHANGED <<state_, value_, mtx_, tmp, hist>>

\* lines 268, 270: the check of get(); return nullptr
Get(t) ==
    /\ Begin(t)
    /\ IF IsInit("cell")
       THEN Goto(t, "get_deref") /\ UNCHANGED last
       ELSE Finish(t, "get", "null", Empty)
    /\ UNCHANGED <<state_, value_, mtx_, tmp, hist>>

\* line 269: return &(*value_)
GetDeref(t) ==
    /\ pc[t] = "get_deref"
    /\ \E v \in DerefOutcomes(value_) : Finish(t, "get", "ptr", v)
    /\ UNCHANGED <<state_, value_, mtx_, tmp, ops, hist>>

\* lines 281, 283: the check of try_get(); return nullptr
TryGet(t) ==
    /\ Begin(t)
    /\ IF IsInit("cell")
       THEN Goto(t, "try_deref") /\ UNCHANGED last
       ELSE Finish(t, "try_get", "null", Empty)
    /\ UNCHANGED <<state_, value_, mtx_, tmp, hist>>

\* line 282: return &(*value_)
TryGetDeref(t) ==
    /\ pc[t] = "try_deref"
    /\ \E v \in DerefOutcomes(value_) : Finish(t, "try_get", "ptr", v)
    /\ UNCHANGED <<state_, value_, mtx_, tmp, ops, hist>>

\* ------------------------------------------------------- OnceCell<T>::reset
\* line 291: reset() is entered
Reset(t) ==
    /\ Begin(t)
    /\ resetCalled' = [resetCalled EXCEPT !["cell"] = TRUE]
    /\ Goto(t, "rst_lock")
    /\ UNCHANGED <<state_, value_, mtx_, tmp, last, initRuns, initStores, failers, stored>>

\* a reset that does not wait for the mutex
ResetLock_NoWait(t) ==
    /\ pc[t] = "rst_lock"
    /\ Lock("cell", t)
    /\ Goto(t, "rst_clear")
    /\ UNCHANGED <<state_, value_, tmp, last, ops, hist>>

\* line 293: std::lock_guard<std::mutex> lock(mtx_)
ResetLock(t) ==
    /\ pc[t] = "rst_lock"
    /\ CanLock("cell")
    /\ Lock("cell", t)
    /\ Goto(t, "rst_clear")
    /\ UNCHANGED <<state_, value_, tmp, last, ops, hist>>

\* a reset that leaves the stored value in place
ResetClear_Skip(t) ==
    /\ pc[t] = "rst_clear"
    /\ Goto(t, "rst_store")
    /\ UNCHANGED <<state_, value_, mtx_, tmp, last, ops, hist>>

\* line 294: value_.reset()
ResetClear(t) ==
    /\ pc[t] = "rst_clear"
    /\ value_' = Empty
    /\ Goto(t, "rst_store")
    /\ UNCHANGED <<state_, mtx_, tmp, last, ops, hist>>

\* a reset that clears the value and leaves the flag alone
ResetStore_NoStore(t) ==
    /\ pc[t] = "rst_store"
    /\ Finish(t, "reset", "void", Empty)
    /\ Unlock("cell")
    /\ UNCHANGED <<state_, value_, tmp, ops, hist>>

\* lines 295-296: state_.store(State::Uninitialized, release); unlock
ResetStore(t) ==
    /\ pc[t] = "rst_store"
    /\ state_' = [state_ EXCEPT !["cell"] = "Uninitialized"]
    /\ Finish(t, "reset", "void", Empty)
    /\ Unlock("cell")
    /\ UNCHANGED <<value_, tmp, ops, hist>>

\* ----------------------------------------------------------- OnceCall::call
\* a first check that takes any state but Uninitialized for done
CallFast_NotUninitialized(t) ==
    /\ Begin(t)
    /\ IF state_["once"] # "Uninitialized"
       THEN Finish(t, "call", "fast", Empty)
       ELSE Goto(t, "call_lock") /\ UNCHANGED last
    /\ UNCHANGED <<state_, value_, mtx_, tmp, hist>>

\* lines 179-180: the lock-free first check; return
CallFast(t) ==
    /\ Begin(t)
    /\ IF IsInit("once")
       THEN Finish(t, "call", "fast", Empty)
       ELSE Goto(t, "call_lock") /\ UNCHANGED last
    /\ UNCHANGED <<state_, value_, mtx_, tmp, hist>>

\* a call that enters the slow path without waiting for the mutex
CallLock_NoWait(t) ==
    /\ pc[t] = "call_lock"
    /\ Lock("once", t)
    /\ Goto(t, "call_check")
    /\ UNCHANGED <<state_, value_, tmp, last, ops, hist>>

\* line 182: std::unique_lock<std::mutex> lock(mtx_)
CallLock(t) ==
    /\ pc[t] = "call_lock"
    /\ CanLock("once")
    /\ Lock("once", t)
    /\ Goto(t, "call_check")
    /\ UNCHANGED <<state_, value_, tmp, last, ops, hist>>

\* a call whose slow path omits the second check
CallSecondCheck_NoRecheck(t) ==
    /\ pc[t] = "call_check"
    /\ Goto(t, "call_mark")
    /\ UNCHANGED <<state_, value_, mtx_, tmp, last, ops, hist>>

\* lines 183-184: the second check under the lock; return and unlock
CallSecondCheck(t) ==
    /\ pc[t] = "call_check"
    /\ IF IsInit("once")
       THEN /\ Finish(t, "call", "second", Empty)
            /\ Unlock("once")
       ELSE /\ Goto(t, "call_mark")
            /\ UNCHANGED <<mtx_, last>>
    /\ UNCHANGED <<state_, value_, tmp, ops, hist>>

\* line 186: state_.store(State::Initializing, relaxed)
CallMark(t) ==
    /\ pc[t] = "call_mark"
    /\ state_' = [state_ EXCEPT !["once"] = "Initializing"]
    /\ Goto(t, "call_fn")
    /\ UNCHANGED <<value_, mtx_, tmp, last, ops, hist>>

\* line 189: std::forward<Fn>(fn)() runs to its end and returns, or throws
CallInvoke(t) ==
    /\ pc[t] = "call_fn"
    /\ initRuns' = [initRuns EXCEPT !["once"] = @ + 1]
    /\ \/ /\ Goto(t, "call_store")
          /\ UNCHANGED failers
       \/ /\ failers' = [failers EXCEPT !["once"] = @ \cup {t}]
          /\ Goto(t, "call_catch")
    /\ UNCHANGED <<state_, value_, mtx_, tmp, last, ops, initStores, resetCalled, stored>>

\* lines 190-191, 197: state_.store(State::Initialized, release); return; unlock
CallPublish(t) ==
    /\ pc[t] = "call_store"
    /\ state_' = [state_ EXCEPT !["once"] = "Initialized"]
    /\ initStores' = [initStores EXCEPT !["once"] = @ + 1]
    /\ Finish(t, "call", "fresh", Empty)
    /\ Unlock("once")
    /\ UNCHANGED <<value_, tmp, ops, initRuns, resetCalled, failers, stored>>

\* a handler that leaves with the mutex still locked
CallCatch_KeepLock(t) ==
    /\ pc[t] = "call_catch"
    /\ state_' = [state_ EXCEPT !["once"] = "Uninitialized"]
    /\ Finish(t, "call", "threw", Empty)
    /\ UNCHANGED <<value_, mtx_, tmp, ops, hist>>

\* lines 192-196: catch (...) { state_.store(State::Uninitialized, release); throw; }
CallCatch(t) ==
    /\ pc[t] = "call_catch"
    /\ state_' = [state_ EXCEPT !["once"] = "Uninitialized"]
    /\ Finish(t, "call", "threw", Empty)
    /\ Unlock("once")
    /\ UNCHANGED <<value_, tmp, ops, hist>>

\* ------------------------------------- OnceCall::is_initialized, OnceCall::reset
\* once_call.cpp: return state_.load(acquire) == State::Initialized
OnceIsInitialized(t) ==
    /\ Begin(t)
    /\ Finish(t, "once_is_initialized", IF IsInit("once") THEN "true" ELSE "false", Empty)
    /\ UNCHANGED <<state_, value_, mtx_, tmp, hist>>

\* line 49: reset() is entered
OnceReset(t) ==
    /\ Begin(t)
    /\ resetCalled' = [resetCalled EXCEPT !["once"] = TRUE]
    /\ Goto(t, "orst_lock")
    /\ UNCHANGED <<state_, value_, mtx_, tmp, last, initRuns, initStores, failers, stored>>

\* a reset that does not wait for the mutex
OnceResetLock_NoWait(t) ==
    /\ pc[t] = "orst_lock"
    /\ Lock("once", t)
    /\ Goto(t, "orst_store")
    /\ UNCHANGED <<state_, value_, tmp, last, ops, hist>>

\* line 50: std::lock_guard<std::mutex> lock(mtx_)
OnceResetLock(t) ==
    /\ pc[t] = "orst_lock"
    /\ CanLock("once")
    /\ Lock("once", t)
    /\ Goto(t, "orst_store")
    /\ UNCHANGED <<state_, value_, tmp, last, ops, hist>>

\* lines 51-52: state_.store(State::Uninitialized, release); unlock
OnceResetStore(t) ==
    /\ pc[t] = "orst_store"
    /\ state_' = [state_ EXCEPT !["once"] = "Uninitialized"]
    /\ Finish(t, "once_reset", "void", Empty)
    /\ Unlock("once")
    /\ UNCHANGED <<value_, tmp, ops, hist>>

\* ------------------------------------------------------------ specification
CellStep(t) ==
    \/ GetOrInitFast(t) \/ GetOrInitFastReturn(t) \/ GetOrInitLock(t)
    \/ GetOrInitSecondCheck(t) \/ GetOrInitMark(t) \/ GetOrInitInvoke(t)
    \/ GetOrInitEmplace(t) \/ GetOrInitPublish(t) \/ GetOrInitCatch(t)
    \/ IsInitialized(t) \/ Get(t) \/ GetDeref(t) \/ TryGet(t) \/ TryGetDeref(t)
    \/ Reset(t) \/ ResetLock(t) \/ ResetClear(t) \/ ResetStore(t)

OnceStep(t) ==
    \/ CallFast(t) \/ CallLock(t) \/ CallSecondCheck(t) \/ CallMark(t)
    \/ CallInvoke(t) \/ CallPublish(t) \/ CallCatch(t)
    \/ OnceIsInitialized(t) \/ OnceReset(t) \/ OnceResetLock(t) \/ OnceResetStore(t)

Next == (\E t \in Threads : CellStep(t) \/ OnceStep(t)) /\ UNCHANGED tl_vars

Spec == Init /\ [][Next]_vars

\* ------------------------------------------------ re-entrant initializers
\* The initializer, running at line 189 / 238 on the thread that holds mtx_,
\* calls a member function of the very primitive it initializes.  The nested
\* call executes the same statements, so the thread moves to the labels of
\* that member function.  std::mutex is not recursive: locking it again on
\* the owning thread is undefined by the standard; on the pthread build of
\* this library (default mutex type) the call blocks, which is what the
\* guard CanLock of the lock steps says for the owner as for anyone else.

\* an initializer invoked with the mutex released, then calling get_or_init
ReenterGetOrInit_Unlocked(t) ==
    /\ pc[t] = "goi_fn"
    /\ Goto(t, IF IsInit("cell") THEN "goi_fn" ELSE "goi_lock")
    /\ Unlock("cell")
    /\ UNCHANGED <<state_, value_, tmp, last, ops, hist>>

\* fn() calls get_or_init on the same cell: line 228, the first check of the
\* nested call; on Initialized it would return into the initializer
ReenterGetOrInit(t) ==
    /\ pc[t] = "goi_fn"
    /\ Goto(t, IF IsInit("cell") THEN "goi_fn" ELSE "goi_lock")
    /\ UNCHANGED <<state_, value_, mtx_, tmp, last, ops, hist>>

\* fn() calls reset() on the same cell: line 291, the nested reset is entered
ReenterReset(t) ==
    /\ pc[t] = "goi_fn"
    /\ resetCalled' = [resetCalled EXCEPT !["cell"] = TRUE]
    /\ Goto(t, "rst_lock")
    /\ UNCHANGED <<state_, value_, mtx_, tmp, last, ops, initRuns, initStores, failers, stored>>

\* fn() calls call() on the same OnceCall: lines 179-180 of the nested call
ReenterCall(t) ==
    /\ pc[t] = "call_fn"
    /\ Goto(t, IF IsInit("once") THEN "call_fn" ELSE "call_lock")
    /\ UNCHANGED <<state_, value_, mtx_, tmp, last, ops, hist>>

\* fn() calls reset() on the same OnceCall: line 49
ReenterOnceReset(t) ==
    /\ pc[t] = "call_fn"
    /\ resetCalled' = [resetCalled EXCEPT !["once"] = TRUE]
    /\ Goto(t, "orst_lock")
    /\ UNCHANGED <<state_, value_, mtx_, tmp, last, ops, initRuns, initStores, failers, stored>>

ReenterStep(t) ==
    \/ ReenterGetOrInit(t) \/ ReenterReset(t)
    \/ ReenterCall(t) \/ ReenterOnceReset(t)

ReentrantNext ==
    (\E t \in Threads : CellStep(t) \/ OnceStep(t) \/ ReenterStep(t)) /\ UNCHANGED tl_vars

ReentrantSpec == Init /\ [][ReentrantNext]_vars

\* the statements at which a thread waits for a mutex
LockSteps == {"goi_lock", "call_lock", "rst_lock", "orst_lock"}

\* thread t, inside a member function and not waiting for a mutex, executes
\* its next statement; this includes the return or throw of the initializer
Continue(t) ==
    /\ pc[t] \notin LockSteps \cup {"idle"}
    /\ CellStep(t) \/ OnceStep(t)
    /\ UNCHANGED tl_vars

\* thread t is granted the mutex it waits for
Acquire(t) ==
    /\ GetOrInitLock(t) \/ CallLock(t) \/ ResetLock(t) \/ OnceResetLock(t)
    /\ UNCHANGED tl_vars

\* every thread keeps running, every initializer invocation terminates, and a
\* thread that can acquire a mutex again and again eventually gets it
FairSpec ==
    /\ Spec
    /\ \A t \in Threads : WF_vars(Continue(t)) /\ SF_vars(Acquire(t))

\* static thread_local components::Lazy<type> name([] { return expr; });
\* every thread reaches, under the one name, an object of its own.  Only the
\* owning thread can touch it, so its operations do not interleave.
LocalBegin == tl_ops < MaxLocalOps /\ tl_ops' = tl_ops + 1

LocalDone(t, op, how, val) == tl_last' = [by |-> t, op |-> op, how |-> how, val |-> val]

\* a single instance shared by all threads, as a plain static would be
LocalInstance_Static(t) == 1

\* the instance the name denotes in thread t
LocalInstance(t) == t

\* cell_.get_or_init(init_fn_) on instance i by thread t, then the caller
\* assigns w through the returned reference (w = Empty: it only reads)
LocalGetOrInit(t, i, op, w) ==
    \/ /\ tl_state[i] = "Initialized"
       /\ tl_value' = [tl_value EXCEPT ![i] = IF w = Empty THEN @ ELSE w]
       /\ LocalDone(t, op, "fast", tl_value'[i])
       /\ UNCHANGED <<tl_state, tl_runs>>
    \/ /\ tl_state[i] # "Initialized"
       /\ tl_runs' = [tl_runs EXCEPT ![t] = @ + 1]
       /\ \/ \E r \in Values :
                /\ tl_state' = [tl_state EXCEPT ![i] = "Initialized"]
                /\ tl_value' = [tl_value EXCEPT ![i] = IF w = Empty THEN r ELSE w]
                /\ LocalDone(t, op, "fresh", tl_value'[i])
          \/ /\ LocalDone(t, op, "threw", Empty)
             /\ UNCHANGED <<tl_state, tl_value>>

\* a get() that runs the initializer on every access
LocalGet_Reinit(t) ==
    /\ LocalBegin
    /\ \E r \in Values :
          /\ tl_state' = [tl_state EXCEPT ![LocalInstance(t)] = "Initialized"]
          /\ tl_value' = [tl_value EXCEPT ![LocalInstance(t)] = r]
          /\ LocalDone(t, "get", "fresh", r)
    /\ tl_runs' = [tl_runs EXCEPT ![t] = @ + 1]
    /\ UNCHANGED <<tl_written, shared>>

\* x = *name;
LocalGet(t) ==
    /\ LocalBegin
    /\ LocalGetOrInit(t, LocalInstance(t), "get", Empty)
    /\ UNCHANGED <<tl_written, shared>>

\* *name = w;
LocalWrite(t) ==
    /\ LocalBegin
    /\ \E w \in Values :
          /\ LocalGetOrInit(t, LocalInstance(t), "write", w)
          /\ tl_written' = IF tl_last'.how = "threw" THEN tl_written
                           ELSE [tl_written EXCEPT ![LocalInstance(t)] = w]
    /\ UNCHANGED shared

\* name.try_get(): cell_.get(), nullptr unless Initialized
LocalTryGet(t) ==
    /\ LocalBegin
    /\ LET i == LocalInstance(t) IN
          IF tl_state[i] = "Initialized"
          THEN LocalDone(t, "try_get", "value", tl_value[i])
          ELSE LocalDone(t, "try_get", "null", Empty)
    /\ UNCHANGED <<tl_state, tl_value, tl_runs, tl_written, shared>>

\* name.is_initialized()
LocalIsInitialized(t) ==
    /\ LocalBegin
    /\ LocalDone(t, "is_initialized",
                 IF tl_state[LocalInstance(t)] = "Initialized" THEN "true" ELSE "false", Empty)
    /\ UNCHANGED <<tl_state, tl_value, tl_runs, tl_written, shared>>

\* name.reset(): cell_.reset()
LocalReset(t) ==
    /\ LocalBegin
    /\ tl_state' = [tl_state EXCEPT ![LocalInstance(t)] = "Uninitialized"]
    /\ tl_value' = [tl_value EXCEPT ![LocalInstance(t)] = Empty]
    /\ tl_written' = [tl_written EXCEPT ![LocalInstance(t)] = Empty]
    /\ LocalDone(t, "reset", "done", Empty)
    /\ UNCHANGED <<tl_runs, shared>>

LocalStep(t) ==
    \/ LocalGet(t) \/ LocalWrite(t) \/ LocalTryGet(t)
    \/ LocalIsInitialized(t) \/ LocalReset(t)

LocalNext == \E t \in Threads : LocalStep(t)

SpecLocal == Init /\ [][LocalNext]_vars

\* ------------------------------------------------------------------ claims
NoReset(p) == ~resetCalled[p]
NoFailure(p) == failers[p] = {}
AllIdle == \A t \in Threads : pc[t] = "idle"
\* thread t completes an operation in this step, leaving label
Leaves(t, label) == pc[t] = label /\ pc'[t] = "idle"

\* C1: with no reset() and no failing initializer, the initializer body of the
\* cell has run at most once at any time, and exactly once as soon as some
\* get_or_init has returned (so, in particular, when all callers have returned).
C1_SingleInvocation ==
    (NoReset("cell") /\ NoFailure("cell")) =>
        /\ initRuns["cell"] <= 1
        /\ (last.op = "get_or_init" => initRuns["cell"] = 1)

\* two callers raced into the slow path; the loser came back from the second check
C1_Witness ==
    /\ NoReset("cell") /\ NoFailure("cell") /\ AllIdle
    /\ last.op = "get_or_init" /\ last.how = "second"
    /\ initRuns["cell"] = 1

\* C2: with no reset() and no failure, every get_or_init returns the value the
\* one winning initializer stored, and no thread is on its way to invoke an
\* initializer once the state has been stored as Initialized.
C2_SameValue ==
    (NoReset("cell") /\ NoFailure("cell")) =>
        /\ (last.op = "get_or_init" => last.val \in Values /\ last.val = stored)
        /\ \A t \in Threads :
              pc[t] \in {"goi_mark", "goi_fn", "goi_emplace", "goi_store"} => initStores["cell"] = 0

C2_Witness ==
    /\ NoReset("cell") /\ NoFailure("cell")
    /\ last.op = "get_or_init" /\ last.how = "second" /\ last.val = stored
    /\ \E t \in Threads : pc[t] = "goi_deref"

\* C3: once the cell is Initialized and reset() has not been called, every step
\* leaves it Initialized with the same value and runs no initializer, and every
\* get_or_init that returns gives the stored value.
C3_Idempotent ==
    /\ []((IsInit("cell") /\ NoReset("cell") /\ last.op = "get_or_init") =>
              (last.how # "threw" /\ last.val = value_))
    /\ [][(IsInit("cell") /\ NoReset("cell")) =>
              /\ state_'["cell"] = "Initialized"
              /\ value_' = value_
              /\ initRuns'["cell"] = initRuns["cell"]
              /\ \A t \in Threads :
                    (Leaves(t, "goi_deref") \/ Leaves(t, "goi_check")) =>
                        (last'.op = "get_or_init" /\ last'.val = value_)]_vars

C3_Witness ==
    /\ IsInit("cell") /\ NoReset("cell")
    /\ last.op = "get_or_init" /\ last.how = "fast" /\ last.val = value_
    /\ ops >= 2

\* C4: the step that delivers an initializer's failure leaves the primitive
\* Uninitialized with an empty slot; a call that then finds the state not
\* Initialized under the lock goes on to invoke its initializer, and the step
\* that completes a successful initialization leaves the state Initialized and
\* returns the value just produced.
C4_FailureRetry ==
    [][\A t \in Threads :
          /\ Leaves(t, "goi_catch") =>
                (state_'["cell"] = "Uninitialized" /\ value_' = Empty /\ last'.how = "threw")
          /\ Leaves(t, "call_catch") =>
                (state_'["once"] = "Uninitialized" /\ last'.how = "threw")
          /\ (pc[t] = "goi_check" /\ pc'[t] # pc[t] /\ ~IsInit("cell")) => pc'[t] = "goi_mark"
          /\ (pc[t] = "call_check" /\ pc'[t] # pc[t] /\ ~IsInit("once")) => pc'[t] = "call_mark"
          /\ Leaves(t, "goi_store") =>
                (state_'["cell"] = "Initialized" /\ last'.how = "fresh" /\ last'.val = value_' /\ value_' = stored)
          /\ Leaves(t, "call_store") =>
                (state_'["once"] = "Initialized" /\ last'.how = "fresh")]_vars

\* both primitives failed once and were initialized by a retry
C4_Witness ==
    /\ failers["cell"] # {} /\ IsInit("cell") /\ value_ \in Values
    /\ failers["once"] # {} /\ IsInit("once")
    /\ last.how = "fresh"

\* C5: a failure is in flight only in the thread whose own initializer threw;
\* while it is, the primitive is not Initialized and the slot is empty; a thread
\* that takes the lock right after a failure was delivered finds the state not
\* Initialized; and no observation of an initialized primitive (is_initialized()
\* true, a non-null get()/try_get(), a normal return) happens before some
\* initialization has succeeded.
C5_FailureLocal ==
    /\ \A t \in Threads :
          /\ pc[t] = "goi_catch" =>
                (t \in failers["cell"] /\ ~IsInit("cell") /\ value_ = Empty /\ mtx_["cell"] = {t})
          /\ pc[t] = "call_catch" =>
                (t \in failers["once"] /\ ~IsInit("once") /\ mtx_["once"] = {t})
          /\ (pc[t] = "goi_check" /\ last.op = "get_or_init" /\ last.how = "threw") => ~IsInit("cell")
          /\ (pc[t] = "call_check" /\ last.op = "call" /\ last.how = "threw") => ~IsInit("once")
          /\ pc[t] \in {"goi_deref", "get_deref", "try_deref"} => initStores["cell"] > 0
    /\ (last.op \in {"is_initialized", "get", "try_get"} /\ last.how \in {"true", "ptr"}) =>
          initStores["cell"] > 0
    /\ (last.op = "once_is_initialized" /\ last.how = "true") => initStores["once"] > 0
    /\ (last.how = "threw") => failers[IF last.op = "call" THEN "once" ELSE "cell"] # {}

\* one thread's initializer has thrown while another waits for the lock
C5_Witness ==
    \E t, u \in Threads :
        /\ pc[u] = "goi_catch" /\ pc[t] = "goi_lock"
        /\ initStores["cell"] = 0

\* a blocked thread took the lock after the failure was delivered and retries
C5_RetryWitness ==
    \E t \in Threads :
        /\ pc[t] = "goi_fn" /\ last.op = "get_or_init" /\ last.how = "threw"
        /\ ops = 2

\* C6: the step that completes reset() leaves the primitive Uninitialized (and
\* the cell's slot empty); a later call that finds the state not Initialized
\* under the lock invokes its initializer, emplaces what it produced and
\* returns that value.
C6_ResetReinit ==
    [][\A t \in Threads :
          /\ Leaves(t, "rst_store") => (state_'["cell"] = "Uninitialized" /\ value_' = Empty)
          /\ Leaves(t, "orst_store") => state_'["once"] = "Uninitialized"
          /\ (pc[t] = "goi_check" /\ pc'[t] # pc[t] /\ state_["cell"] = "Uninitialized") =>
                (pc'[t] = "goi_mark" /\ value_ = Empty)
          /\ (pc[t] = "call_check" /\ pc'[t] # pc[t] /\ state_["once"] = "Uninitialized") =>
                pc'[t] = "call_mark"
          /\ (pc[t] = "goi_emplace" /\ pc'[t] # pc[t]) => (value_' = tmp[t] /\ tmp[t] \in Values)
          /\ Leaves(t, "goi_store") => (last'.val = value_ /\ IsInit("cell")')]_vars

\* initialized, reset, initialized again
C6_Witness ==
    /\ resetCalled["cell"] /\ initStores["cell"] = 2
    /\ last.op = "get_or_init" /\ last.how = "fresh" /\ last.val = value_
    /\ AllIdle

\* C7 as stated: in every reachable state the slot is non-empty iff the flag is
\* Initialized.
C7_SlotIffInitialized == (value_ # Empty) <=> IsInit("cell")

\* C7 amended: whenever no thread holds the cell's lock, the slot is non-empty
\* iff the flag is Initialized.
C7_SlotIffInitializedUnlocked ==
    mtx_["cell"] = {} => ((value_ # Empty) <=> IsInit("cell"))

\* the lock is free after a reset that emptied an initialized cell
C7_Witness ==
    /\ mtx_["cell"] = {} /\ value_ = Empty /\ ~IsInit("cell")
    /\ initStores["cell"] > 0 /\ last.op = "reset"

\* C8 as stated: a thread that read Initialized in a lock-free check finds the
\* slot non-empty when it dereferences it, and what it reads is a value.
C8_InitializedImpliesValue ==
    /\ \A t \in Threads : pc[t] \in {"goi_deref", "get_deref", "try_deref"} => value_ # Empty
    /\ (last.how \in {"fast", "ptr"} /\ last.op \in {"get_or_init", "get", "try_get"}) =>
          last.val \in Values

\* C9: without reset(), State::Initialized is stored at most once per primitive,
\* and once a primitive is Initialized no step writes its flag or its value.
C9_SingleTransition ==
    /\ [](\A p \in Prims : NoReset(p) => initStores[p] <= 1)
    /\ [][\A p \in Prims : (NoReset(p) /\ IsInit(p)) =>
              (state_'[p] = state_[p] /\ (p = "cell" => value_' = value_))]_vars

\* a failed attempt, a retry that succeeded, and a later fast-path call
C9_Witness ==
    /\ NoReset("once") /\ failers["once"] # {}
    /\ initStores["once"] = 1 /\ initRuns["once"] = 2
    /\ last.op = "call" /\ last.how = "fast"

\* C10: whenever OnceCall::call has returned normally, State::Initialized has
\* been stored at least once.
C10_ReturnAfterSuccess ==
    (last.op = "call" /\ last.how \in {"fast", "second", "fresh"}) => initStores["once"] >= 1

\* a call returns from its second check after another thread's attempt failed
C10_Witness ==
    /\ last.op = "call" /\ last.how = "second"
    /\ failers["once"] # {}

\* an operation is entered and left in one step (no thread changes position)
Immediate == pc' = pc /\ ops' = ops + 1

\* some thread takes a step of is_initialized(), get() or try_get()
ObserverStep ==
    \/ \E t \in Threads :
          \/ pc[t] = "idle" /\ pc'[t] \in {"get_deref", "try_deref"}
          \/ Leaves(t, "get_deref") \/ Leaves(t, "try_deref")
    \/ Immediate /\ last'.op \in {"is_initialized", "get", "try_get", "once_is_initialized"}

\* C11: before any operation is called no initializer has run and both
\* primitives are Uninitialized with an empty slot; a step of is_initialized(),
\* get() or try_get() changes neither flag, slot, lock nor the count of
\* initializer runs, answers false / null exactly when the state is not
\* Initialized; and an initializer runs only in a step of call or get_or_init.
C11_Laziness ==
    /\ [](ops = 0 =>
            /\ \A p \in Prims : state_[p] = "Uninitialized" /\ initRuns[p] = 0
            /\ value_ = Empty)
    /\ [][/\ ObserverStep =>
                (state_' = state_ /\ value_' = value_ /\ mtx_' = mtx_ /\ initRuns' = initRuns)
          /\ \A t \in Threads :
                (pc[t] = "idle" /\ pc'[t] \in {"get_deref", "try_deref"}) => IsInit("cell")
          /\ Immediate =>
                /\ last'.op \in {"get", "try_get"} => (last'.how = "null" /\ ~IsInit("cell"))
                /\ last'.op = "is_initialized" => (last'.how = "true" <=> IsInit("cell"))
                /\ last'.op = "once_is_initialized" => (last'.how = "true" <=> IsInit("once"))
          /\ initRuns'["cell"] # initRuns["cell"] =>
                \E u \in Threads : pc[u] = "goi_fn" /\ pc'[u] # "goi_fn"
          /\ initRuns'["once"] # initRuns["once"] =>
                \E u \in Threads : pc[u] = "call_fn" /\ pc'[u] # "call_fn"]_vars

\* try_get() answered null while another thread's initializer was running
C11_Witness ==
    /\ last.op = "try_get" /\ last.how = "null"
    /\ state_["cell"] = "Initializing" /\ value_ = Empty
    /\ \E t \in Threads : pc[t] = "goi_fn"

\* C12: with no reset() and no failing initializer, the action of the OnceCall
\* has run at most once at any time, and exactly once as soon as some call has
\* returned.
C12_RunOnce ==
    (NoReset("once") /\ NoFailure("once")) =>
        /\ initRuns["once"] <= 1
        /\ (last.op = "call" => initRuns["once"] = 1)

\* a second call came back from the fast path without running the action
C12_Witness ==
    /\ NoReset("once") /\ NoFailure("once") /\ AllIdle
    /\ last.op = "call" /\ last.how = "fast"
    /\ initRuns["once"] = 1 /\ ops >= 2

\* where a thread stands while it holds the lock of primitive p
LockedLabels(p) ==
    IF p = "cell"
    THEN {"goi_check", "goi_mark", "goi_fn", "goi_emplace", "goi_store", "goi_catch",
          "rst_clear", "rst_store"}
    ELSE {"call_check", "call_mark", "call_fn", "call_store", "call_catch", "orst_store"}
\* between the store of Initializing and the final store of call / get_or_init
InitializingLabels(p) ==
    IF p = "cell"
    THEN {"goi_fn", "goi_emplace", "goi_store", "goi_catch"}
    ELSE {"call_fn", "call_store", "call_catch"}
ResetLabels(p) == IF p = "cell" THEN {"rst_clear", "rst_store"} ELSE {"orst_store"}
At(labels) == {t \in Threads : pc[t] \in labels}

\* C15: the flag of a primitive changes only Uninitialized -> Initializing (by
\* the lock holder at the store of Initializing), Initializing -> Initialized
\* (by the thread whose initializer returned), Initializing -> Uninitialized
\* (by the thread whose initializer threw) and Initialized -> Uninitialized (by
\* the last step of reset(), the cell's slot being empty afterwards).
C15_Transitions ==
    [][\A p \in Prims : state_'[p] # state_[p] =>
          \E t \in Threads :
             /\ mtx_[p] = {t}
             /\ \/ /\ state_[p] = "Uninitialized" /\ state_'[p] = "Initializing"
                   /\ pc[t] \in {"goi_mark", "call_mark"}
                \/ /\ state_[p] = "Initializing" /\ state_'[p] = "Initialized"
                   /\ pc[t] \in {"goi_store", "call_store"}
                \/ /\ state_[p] = "Initializing" /\ state_'[p] = "Uninitialized"
                   /\ pc[t] \in {"goi_catch", "call_catch"}
                \/ /\ state_[p] = "Initialized" /\ state_'[p] = "Uninitialized"
                   /\ pc[t] \in ResetLabels(p)
                   /\ (p = "cell" => value_' = Empty)]_vars

\* the run-once action failed, was retried with success and was then reset
C15_Witness ==
    /\ failers["once"] # {} /\ initStores["once"] = 1
    /\ last.op = "once_reset" /\ state_["once"] = "Uninitialized"

\* C16: per primitive at most one thread is past the lock at any time, it is
\* the holder of the mutex, and so at most one initializer invocation is in
\* progress and no reset() writes while one is.
C16_MutualExclusion ==
    \A p \in Prims :
        /\ Cardinality(At(LockedLabels(p))) <= 1
        /\ Cardinality(At(InitializingLabels(p))) <= 1
        /\ At(LockedLabels(p)) = mtx_[p]
        /\ (At(InitializingLabels(p)) # {} => At(ResetLabels(p)) = {})
        /\ (At(InitializingLabels(p)) # {} <=> state_[p] = "Initializing")

\* an initializer has returned while a reset() and a call wait for the locks
C16_Witness ==
    \E t, u \in Threads :
        /\ pc[t] = "goi_emplace" /\ pc[u] = "rst_lock"
        /\ mtx_["cell"] = {t}

\* C18: whenever no thread is past the lock of a primitive, its mutex is free
\* and its flag is Uninitialized or Initialized.
C18_LockReleased ==
    \A p \in Prims :
        At(LockedLabels(p)) = {} => (mtx_[p] = {} /\ state_[p] # "Initializing")

\* every thread is back after a failure, a second-check return and a reset
C18_Witness ==
    /\ AllIdle /\ ops = MaxOps
    /\ failers["once"] # {} /\ last.op = "call" /\ last.how = "second"
    /\ mtx_["once"] = {} /\ mtx_["cell"] = {}

C19_ResetWaits ==
    /\ [](\A t \in Threads :
            /\ (pc[t] = "rst_lock" /\ At(LockedLabels("cell")) # {}) => ~ENABLED ResetLock(t)
            /\ (pc[t] = "orst_lock" /\ At(LockedLabels("once")) # {}) => ~ENABLED OnceResetLock(t))
    /\ [][\A t \in Threads :
            /\ (pc[t] = "rst_lock" /\ pc'[t] # "rst_lock") =>
                  (mtx_["cell"] = {} /\ state_["cell"] # "Initializing" /\ At(LockedLabels("cell")) = {})
            /\ (pc[t] = "orst_lock" /\ pc'[t] # "orst_lock") =>
                  (mtx_["once"] = {} /\ state_["once"] # "Initializing" /\ At(LockedLabels("once")) = {})
            /\ Leaves(t, "rst_store") => (state_'["cell"] = "Uninitialized" /\ value_' = Empty)
            /\ Leaves(t, "orst_store") => state_'["once"] = "Uninitialized"
            /\ (Leaves(t, "goi_store") /\ At({"rst_lock"}) # {}) =>
                  (last'.how = "fresh" /\ last'.val \in Values /\ IsInit("cell")')
            /\ (Leaves(t, "call_store") /\ At({"orst_lock"}) # {}) =>
                  (last'.how = "fresh" /\ IsInit("once")')]_vars

\* a reset() waits for the lock while the initializing thread is about to
\* store Initialized
C19_Witness ==
    \E t, u \in Threads :
        /\ pc[t] = "rst_lock" /\ pc[u] = "goi_store"
        /\ state_["cell"] = "Initializing" /\ value_ \in Values

\* the initialization was discarded: one initialization, one reset, and
\* is_initialized() answered false
C19_DiscardWitness ==
    /\ ops = 3 /\ AllIdle /\ initStores["cell"] = 1 /\ resetCalled["cell"]
    /\ last.op = "is_initialized" /\ last.how = "false"

\* thread t completes an operation on the thread_local value in this step
LocalBy(t) == tl_ops' # tl_ops /\ tl_last'.by = t

\* C13: an operation of thread t on the thread_local value leaves the flag
\* and the slot of every other thread's instance, and every other thread's
\* count of initializer runs, unchanged; and the first access of a thread
\* runs the initializer once, for its own instance.
C13_ThreadLocalIndependent ==
    [][\A t \in Threads : LocalBy(t) =>
          /\ \A u \in Threads \ {t} :
                /\ tl_state'[u] = tl_state[u]
                /\ tl_value'[u] = tl_value[u]
                /\ tl_runs'[u] = tl_runs[u]
          /\ (tl_runs[t] = 0 /\ tl_last'.op \in {"get", "write"}) =>
                /\ tl_runs'[t] = 1
                /\ tl_state[t] = "Uninitialized"
                /\ tl_last'.how \in {"fresh", "threw"}
                /\ tl_last'.how = "fresh" =>
                      (tl_state'[t] = "Initialized" /\ tl_value'[t] \in Values)]_vars

\* one thread has just reset its instance while another thread's instance
\* still holds the value that thread wrote
C13_Witness ==
    \E t, u \in Threads :
        /\ t # u
        /\ tl_last.by = t /\ tl_last.op = "reset"
        /\ tl_runs[t] = 1 /\ tl_state[t] = "Uninitialized"
        /\ tl_state[u] = "Initialized" /\ tl_written[u] \in Values
        /\ tl_value[u] = tl_written[u]

\* C14: once a value was assigned through the reference get / operator*
\* returned, and until reset(), the instance is Initialized and holds that
\* value, and every get / try_get returns it without running the initializer.
C14_WriteThrough ==
    /\ [](\A i \in Threads : tl_written[i] # Empty =>
             (tl_state[i] = "Initialized" /\ tl_value[i] = tl_written[i]))
    /\ [][\A t \in Threads :
             (LocalBy(t) /\ tl_written[LocalInstance(t)] # Empty) =>
                /\ tl_last'.op \in {"get", "try_get"} =>
                      /\ tl_last'.val = tl_written[LocalInstance(t)]
                      /\ tl_last'.how \in {"fast", "value"}
                      /\ tl_runs' = tl_runs
                      /\ tl_value' = tl_value
                /\ tl_last'.op = "is_initialized" => tl_last'.how = "true"
                /\ tl_last'.op = "write" => tl_runs' = tl_runs]_vars

\* a get returned the value written earlier, after a single initializer run
C14_Witness ==
    \E t \in Threads :
        /\ tl_last.by = t /\ tl_last.op = "get" /\ tl_last.how = "fast"
        /\ tl_written[t] \in Values /\ tl_last.val = tl_written[t]
        /\ tl_runs[t] = 1

\* some invoked initializer of primitive p has returned normally
Succeeded(p) ==
    IF p = "cell" THEN At({"goi_emplace"}) # {} ELSE At({"call_store"}) # {}

\* C20: under fair scheduling every thread inside call / get_or_init / reset
\* eventually gets control back; and once an initializer of a primitive has
\* returned normally the primitive eventually is Initialized for good, unless
\* a reset() of it is issued.
C20_EventualCompletion ==
    /\ \A t \in Threads : (pc[t] # "idle") ~> (pc[t] = "idle")
    /\ \A p \in Prims : Succeeded(p) ~> ([]IsInit(p) \/ <>resetCalled[p])

\* every operation has completed, one of them after waiting behind an
\* initializer that failed, and the cell, never reset, is Initialized
C20_Witness ==
    /\ AllIdle /\ ops = MaxOps
    /\ NoReset("cell") /\ failers["cell"] # {} /\ initRuns["cell"] >= 2
    /\ IsInit("cell") /\ last.op = "get_or_init" /\ last.how = "second"

\* the statements at which a thread waits for the mutex of primitive p
WaitLabels(p) == IF p = "cell" THEN {"goi_lock", "rst_lock"} ELSE {"call_lock", "orst_lock"}
\* thread t waits for the mutex of p, which it holds itself
Stuck(t, p) == pc[t] \in WaitLabels(p) /\ mtx_[p] = {t}
\* thread t, inside the initializer of p, calls a member function of p
Reenters(t, p) ==
    /\ pc[t] = (IF p = "cell" THEN "goi_fn" ELSE "call_fn")
    /\ pc'[t] # pc[t]
    /\ pc'[t] \notin LockedLabels(p)

\* C21: an initializer that calls call / get_or_init / reset on the primitive
\* it is initializing finds the flag Initializing and ends at the lock
\* statement while its own thread holds the mutex; from then on that thread
\* can take no step, the flag and the mutex never change, and no thread that
\* waits for the mutex of that primitive can go on.
C21_ReentrantDeadlock ==
    /\ [](\A p \in Prims : \A t \in Threads : Stuck(t, p) =>
            /\ state_[p] = "Initializing"
            /\ ~ENABLED (CellStep(t) \/ OnceStep(t) \/ ReenterStep(t))
            /\ \A u \in At(WaitLabels(p)) :
                  ~ENABLED (GetOrInitLock(u) \/ ResetLock(u) \/ CallLock(u) \/ OnceResetLock(u)))
    /\ [][\A p \in Prims : \A t \in Threads :
            /\ Reenters(t, p) => (state_[p] = "Initializing" /\ Stuck(t, p)')
            /\ Stuck(t, p) =>
                  /\ Stuck(t, p)'
                  /\ state_'[p] = state_[p]
                  /\ \A u \in At(WaitLabels(p)) : pc'[u] = pc[u]]_vars

\* a thread re-entered get_or_init from its initializer and waits for its own
\* lock, and another thread waits on the slow path of the same cell
C21_Witness ==
    \E t, u \in Threads :
        /\ t # u
        /\ pc[t] = "goi_lock" /\ Stuck(t, "cell")
        /\ pc[u] = "goi_lock" /\ state_["cell"] = "Initializing"

\* the same through reset() called from the action of a OnceCall
C21_ResetWitness ==
    \E t, u \in Threads :
        /\ t # u
        /\ pc[t] = "orst_lock" /\ Stuck(t, "once")
        /\ pc[u] = "call_lock"

====
